---- MODULE Spec2Model ----
(***************************************************************************)
(* google/cloud/logging_v2/handlers/app_engine.py : AppEngineHandler.      *)
(*                                                                         *)
(* The handler is constructed from the process environment and then        *)
(* receives emit(record) calls from any number of application threads.     *)
(* Each emit call is followed line by line; Python objects are encoded as  *)
(* tagged values so that a missing attribute, None, a string, an int, a    *)
(* dict and a Resource can be told apart.                                  *)
(***************************************************************************)
EXTENDS Integers, Sequences, FiniteSets, TLC

(* ---------------------------------------------------------------------- *)
(* Bounds                                                                  *)
(* ---------------------------------------------------------------------- *)
NumThreads == 2
MaxCalls == 2

Threads == 1..NumThreads

(* ---------------------------------------------------------------------- *)
(* Python values                                                           *)
(* ---------------------------------------------------------------------- *)
EmptyDict == [k \in {} |-> ""]

V(t, s, n, m) == [t |-> t, s |-> s, n |-> n, m |-> m]

\* the attribute is not in the object's __dict__ / the name is not bound
NoAttr == V("<no attribute>", "", 0, EmptyDict)
None == V("NoneType", "", 0, EmptyDict)
PyStr(x) == V("str", x, 0, EmptyDict)
PyInt(i) == V("int", "", i, EmptyDict)
PyDict(d) == V("dict", "", 0, d)
Resource(type, labels) == V("Resource", type, 0, labels)

\* Python truth value of an object
Truthy(v) ==
    CASE v.t = "NoneType" -> FALSE
      [] v.t = "str" -> v.s # ""
      [] v.t = "int" -> v.n # 0
      [] v.t = "dict" -> v.m # EmptyDict
      [] OTHER -> TRUE

\* getattr(obj, name, default)
getattr(obj, name, default) == IF obj[name] = NoAttr THEN default ELSE obj[name]

\* obj.name succeeds only when the attribute exists
hasattr(obj, name) == obj[name] # NoAttr

\* dict.update(other) for a mapping argument: keys of other win
update(d, other) ==
    [k \in (DOMAIN d) \cup (DOMAIN other) |->
        IF k \in DOMAIN other THEN other[k] ELSE d[k]]

(* ---------------------------------------------------------------------- *)
(* Module namespace of app_engine.py                                       *)
(* ---------------------------------------------------------------------- *)
_DEFAULT_GAE_LOGGER_NAME == "app"
_GAE_PROJECT_ENV_FLEX == "GCLOUD_PROJECT"
_GAE_PROJECT_ENV_STANDARD == "GOOGLE_CLOUD_PROJECT"
_GAE_SERVICE_ENV == "GAE_SERVICE"
_GAE_VERSION_ENV == "GAE_VERSION"
_TRACE_ID_LABEL == "appengine.googleapis.com/trace_id"

\* the names bound at module level: the imports, the constants, the class
ModuleGlobals ==
    { "logging", "os", "get_request_data", "_create_app_engine_resource",
      "BackgroundThreadTransport", "_DEFAULT_GAE_LOGGER_NAME",
      "_GAE_PROJECT_ENV_FLEX", "_GAE_PROJECT_ENV_STANDARD", "_GAE_SERVICE_ENV",
      "_GAE_VERSION_ENV", "_TRACE_ID_LABEL", "AppEngineHandler" }

\* the names bound in the body of emit: its parameters and its assignments
EmitLocals ==
    { "self", "record", "message", "user_labels", "gae_labels", "source_location" }

(* ---------------------------------------------------------------------- *)
(* The process environment                                                 *)
(* ---------------------------------------------------------------------- *)
\* nothing set
NoEnv == EmptyDict
\* an App Engine standard instance: the project is named by the second variable
GaeEnv ==
    [k \in {_GAE_PROJECT_ENV_STANDARD, _GAE_SERVICE_ENV, _GAE_VERSION_ENV} |->
        CASE k = _GAE_PROJECT_ENV_STANDARD -> "proj-std"
          [] k = _GAE_SERVICE_ENV -> "default"
          [] OTHER -> "v1"]

Envs == { NoEnv, GaeEnv }

\* os.environ.get(key, default)
environ_get(e, key, default) == IF key \in DOMAIN e THEN e[key] ELSE default

(* ---------------------------------------------------------------------- *)
(* Collaborators outside app_engine.py                                     *)
(* ---------------------------------------------------------------------- *)
\* _monitored_resources._create_app_engine_resource(): reads the environment
\* itself; a GAE resource when the environment identifies one, otherwise the
\* generic fallback with no labels
_create_app_engine_resource(e) ==
    IF /\ _GAE_SERVICE_ENV \in DOMAIN e
       /\ _GAE_VERSION_ENV \in DOMAIN e
       /\ (_GAE_PROJECT_ENV_FLEX \in DOMAIN e \/ _GAE_PROJECT_ENV_STANDARD \in DOMAIN e)
    THEN Resource("gae_app",
             [k \in {"project_id", "module_id", "version_id"} |->
                 CASE k = "project_id" ->
                        environ_get(e, _GAE_PROJECT_ENV_FLEX,
                            environ_get(e, _GAE_PROJECT_ENV_STANDARD, ""))
                   [] k = "module_id" -> e[_GAE_SERVICE_ENV]
                   [] OTHER -> e[_GAE_VERSION_ENV]])
    ELSE Resource("global", EmptyDict)

\* the ambient request context of the calling thread
NoContext == [trace_id |-> None, http_request |-> None]
RequestContext ==
    [trace_id |-> PyStr("trace-ctx"),
     http_request |-> PyDict([requestMethod |-> "GET"])]
Contexts == { NoContext, RequestContext }

\* _helpers.get_request_data(): the pair (http_request, trace_id) of the
\* ambient request, (None, None) outside a request
get_request_data(c) == <<c.http_request, c.trace_id>>

\* logging.Handler.format(record) with the default formatter:
\* record.msg % record.args, the message kept as its sequence of pieces
RECURSIVE Interpolate(_, _)
Interpolate(msg, args) ==
    IF msg = <<>> THEN <<>>
    ELSE IF Head(msg) = "%s" /\ args # <<>>
         THEN <<Head(args)>> \o Interpolate(Tail(msg), Tail(args))
         ELSE <<Head(msg)>> \o Interpolate(Tail(msg), args)

format(record) == Interpolate(record.msg, record.args)

(* ---------------------------------------------------------------------- *)
(* Log records handed to emit                                              *)
(* ---------------------------------------------------------------------- *)
\* a record as logging.LogRecord builds it: lineno, funcName and pathname
\* always exist (possibly 0 / None); everything else only when the caller
\* attached it.  pathName (capital N) is no LogRecord attribute.
LogRecord(msg, args, lineno, funcName, pathname) ==
    [msg |-> msg, args |-> args,
     lineno |-> lineno, funcName |-> funcName, pathname |-> pathname,
     pathName |-> NoAttr,
     labels |-> NoAttr, trace |-> NoAttr, span_id |-> NoAttr,
     http_request |-> NoAttr, resource |-> NoAttr]

\* no attribute-bag field, no source location
PlainRecord == LogRecord(<<"hello">>, <<>>, PyInt(0), None, None)

\* a record made at a call site: line, function and path are known
SiteRecord ==
    LogRecord(<<"n=", "%s">>, <<"7">>, PyInt(42), PyStr("handler"), PyStr("/app/main.py"))

\* every attribute-bag field set by the caller, pathName attached as an extra
FullRecord ==
    [LogRecord(<<"full">>, <<>>, PyInt(7), PyStr("view"), PyStr("/app/views.py"))
        EXCEPT !.pathName = PyStr("/app/views.py"),
               !.labels = PyDict([k \in {"c", _TRACE_ID_LABEL} |->
                                   IF k = "c" THEN "3" ELSE "trace-user"]),
               !.trace = PyStr("projects/p/traces/user"),
               !.span_id = PyStr("span-user"),
               !.http_request = PyDict([requestMethod |-> "POST"]),
               !.resource = Resource("gae_app", [project_id |-> "override"])]

\* labels attached, but not a mapping
MalformedRecord ==
    [LogRecord(<<"bad">>, <<>>, PyInt(0), None, None) EXCEPT !.labels = PyInt(5)]

Records == { PlainRecord, SiteRecord, FullRecord, MalformedRecord }

(* ---------------------------------------------------------------------- *)
(* State                                                                   *)
(* ---------------------------------------------------------------------- *)
VARIABLES
    environ,        \* os.environ
    handler,        \* the AppEngineHandler instance and how __init__ ended
    th,             \* per thread: position in emit, ambient context, frame
    sent,           \* what transport.send has been given, in order
    emitted,        \* the records emit was called with, in call order
    environAtInit,  \* os.environ as it was when __init__ ran
    environReads,   \* number of os.environ.get calls made so far
    resolverCalls   \* number of get_gae_resource calls made so far

vars ==
    <<environ, handler, th, sent, emitted, environAtInit, environReads,
      resolverCalls>>

\* the instance before __init__ has run
NewHandler ==
    [init |-> "not called", name |-> NoAttr, project_id |-> NoAttr,
     module_id |-> NoAttr, version_id |-> NoAttr, resource |-> NoAttr,
     filters |-> 0]

\* the frame of an emit call: its parameter and its local variables
NewFrame(record) ==
    [record |-> record, message |-> <<>>, user_labels |-> NoAttr,
     gae_labels |-> NoAttr, source_location |-> NoAttr]

IdleThread ==
    [pc |-> "idle", exc |-> "", ctx |-> NoContext, frame |-> NewFrame(PlainRecord)]

Init ==
    /\ environ \in Envs
    /\ handler = NewHandler
    /\ th = [t \in Threads |-> IdleThread]
    /\ sent = <<>>
    /\ emitted = <<>>
    /\ environAtInit = NoEnv
    /\ environReads = 0
    /\ resolverCalls = 0

\* LOAD_GLOBAL / LOAD_FAST of a name in a function body: NameError unless the
\* name is a local of the function or bound at module level
IsBound(name, locals) == name \in locals \cup ModuleGlobals

(* ---------------------------------------------------------------------- *)
(* AppEngineHandler.__init__ and get_gae_resource                          *)
(* ---------------------------------------------------------------------- *)
get_gae_resource(e) == _create_app_engine_resource(e)

InitLocals == { "self", "client", "name", "transport", "stream" }

\* lines 63-72 assign the attributes; line 74 then names CloudLoggingFilter
__init__ ==
    /\ handler.init = "not called"
    /\ handler' =
         [init |-> IF IsBound("CloudLoggingFilter", InitLocals)
                   THEN "returned" ELSE "NameError",
          name |-> PyStr(_DEFAULT_GAE_LOGGER_NAME),
          project_id |->
              PyStr(environ_get(environ, _GAE_PROJECT_ENV_FLEX,
                        environ_get(environ, _GAE_PROJECT_ENV_STANDARD, ""))),
          module_id |-> PyStr(environ_get(environ, _GAE_SERVICE_ENV, "")),
          version_id |-> PyStr(environ_get(environ, _GAE_VERSION_ENV, "")),
          resource |-> get_gae_resource(environ),
          filters |-> IF IsBound("CloudLoggingFilter", InitLocals) THEN 1 ELSE 0]
    /\ environAtInit' = environ
    /\ environReads' = environReads + 4
    /\ resolverCalls' = resolverCalls + 1
    /\ UNCHANGED <<environ, th, sent, emitted>>

\* the process environment is changed (os.environ[...] = ..., del os.environ[...])
putenv(e) ==
    /\ e # environ
    /\ environ' = e
    /\ UNCHANGED <<handler, th, sent, emitted, environAtInit, environReads,
                   resolverCalls>>

(* ---------------------------------------------------------------------- *)
(* AppEngineHandler.get_gae_labels                                         *)
(* ---------------------------------------------------------------------- *)
\* lines 93-99, for a caller whose ambient context is c
get_gae_labels(c) ==
    LET trace_id == get_request_data(c)[2]
    IN  IF trace_id # None
        THEN PyDict([k \in {_TRACE_ID_LABEL} |-> trace_id.s])
        ELSE PyDict(EmptyDict)

(* ---------------------------------------------------------------------- *)
(* AppEngineHandler.emit, one action per statement                         *)
(* ---------------------------------------------------------------------- *)
Raise(t, e) == [th EXCEPT ![t].pc = "done", ![t].exc = e]

\* a thread calls handler.emit(record) with ambient context c; threads are
\* numbered in the order of their first call
emit(t, record, c) ==
    /\ handler.init # "not called"
    /\ th[t].pc \in {"idle", "done"}
    /\ \A u \in Threads : u < t => th[u].pc # "idle"
    /\ Len(emitted) < MaxCalls
    /\ th' = [th EXCEPT ![t] =
                 [pc |-> "L111", exc |-> "", ctx |-> c, frame |-> NewFrame(record)]]
    /\ emitted' = Append(emitted, record)
    /\ UNCHANGED <<environ, handler, sent, environAtInit, environReads,
                   resolverCalls>>

\* line 111: message = super().format(record)
emit_format(t) ==
    /\ th[t].pc = "L111"
    /\ th' = [th EXCEPT ![t].pc = "L112",
                        ![t].frame.message = format(th[t].frame.record)]
    /\ UNCHANGED <<environ, handler, sent, emitted, environAtInit, environReads,
                   resolverCalls>>

\* line 112: user_labels = getattr(record, "labels", {})
emit_user_labels(t) ==
    /\ th[t].pc = "L112"
    /\ th' = [th EXCEPT ![t].pc = "L114",
                        ![t].frame.user_labels =
                            getattr(th[t].frame.record, "labels", PyDict(EmptyDict))]
    /\ UNCHANGED <<environ, handler, sent, emitted, environAtInit, environReads,
                   resolverCalls>>

\* a variant of line 114 that keeps the labels on the handler instead of in a
\* local: every call in progress then sees the labels of the latest caller
emit_gae_labels_on_self(t) ==
    /\ th[t].pc = "L114"
    /\ th' = [u \in Threads |->
                 IF u = t
                 THEN [th[u] EXCEPT !.pc = "L115",
                                    !.frame.gae_labels = get_gae_labels(th[t].ctx)]
                 ELSE IF th[u].pc \in {"L115", "L117", "L126"}
                 THEN [th[u] EXCEPT !.frame.gae_labels = get_gae_labels(th[t].ctx)]
                 ELSE th[u]]
    /\ UNCHANGED <<environ, handler, sent, emitted, environAtInit, environReads,
                   resolverCalls>>

\* line 114: gae_labels = self.get_gae_labels()
emit_gae_labels(t) ==
    /\ th[t].pc = "L114"
    /\ th' = [th EXCEPT ![t].pc = "L115",
                        ![t].frame.gae_labels = get_gae_labels(th[t].ctx)]
    /\ UNCHANGED <<environ, handler, sent, emitted, environAtInit, environReads,
                   resolverCalls>>

\* line 115: gae_labels.update(user_labels); a non-iterable argument is a
\* TypeError
emit_update(t) ==
    /\ th[t].pc = "L115"
    /\ th' = IF th[t].frame.user_labels.t = "dict"
             THEN [th EXCEPT ![t].pc = "L117",
                             ![t].frame.gae_labels =
                                 PyDict(update(th[t].frame.gae_labels.m,
                                               th[t].frame.user_labels.m))]
             ELSE Raise(t, "TypeError")
    /\ UNCHANGED <<environ, handler, sent, emitted, environAtInit, environReads,
                   resolverCalls>>

\* str(n) of an int
str(n) == ToString(n)

\* lines 117-124: the condition is evaluated left to right and stops at the
\* first falsy operand; record.pathName is only read after the other two
emit_source_location(t) ==
    /\ th[t].pc = "L117"
    /\ LET record == th[t].frame.record
       IN  th' =
             IF ~Truthy(record.lineno) \/ ~Truthy(record.funcName)
             THEN [th EXCEPT ![t].pc = "L126", ![t].frame.source_location = None]
             ELSE IF ~hasattr(record, "pathName")
             THEN Raise(t, "AttributeError")
             ELSE IF ~Truthy(record.pathName)
             THEN [th EXCEPT ![t].pc = "L126", ![t].frame.source_location = None]
             ELSE [th EXCEPT ![t].pc = "L126",
                             ![t].frame.source_location =
                                 PyDict([file |-> record.pathName.s,
                                         line |-> str(record.lineno.n),
                                         function |-> record.funcName.s])]
    /\ UNCHANGED <<environ, handler, sent, emitted, environAtInit, environReads,
                   resolverCalls>>

\* the value a bound name of the frame holds
LoadName(frame, name) == IF name \in DOMAIN frame THEN frame[name] ELSE NoAttr

\* x if x else None
OrNone(x) == IF Truthy(x) THEN x ELSE None

\* lines 126-135: the arguments are evaluated in the order written; the first
\* one that cannot be evaluated raises and transport.send is not called
SendRaises(frame) ==
    IF ~IsBound("total_labels", EmitLocals) THEN "NameError"
    ELSE IF ~hasattr(frame.record, "trace") THEN "AttributeError"
    ELSE IF ~hasattr(frame.record, "http_request") THEN "AttributeError"
    ELSE ""

SendArgs(frame) ==
    [record |-> frame.record,
     message |-> frame.message,
     resource |-> getattr(frame.record, "resource", handler.resource),
     labels |-> OrNone(LoadName(frame, "total_labels")),
     trace |-> OrNone(frame.record.trace),
     span_id |-> getattr(frame.record, "resource", None),
     http_request |-> OrNone(frame.record.http_request),
     source_location |-> frame.source_location]

\* Transport.send(record, message, **kwargs): the entry is queued
transport_send(queue, entry) == Append(queue, entry)

\* a variant of lines 126-135 that resolves the resource again on every call
emit_send_resolving(t) ==
    /\ th[t].pc = "L126"
    /\ handler' = [handler EXCEPT !.resource = get_gae_resource(environ)]
    /\ resolverCalls' = resolverCalls + 1
    /\ IF SendRaises(th[t].frame) # ""
       THEN /\ th' = Raise(t, SendRaises(th[t].frame))
            /\ sent' = sent
       ELSE /\ th' = [th EXCEPT ![t].pc = "done"]
            /\ sent' = transport_send(sent, SendArgs(th[t].frame))
    /\ UNCHANGED <<environ, emitted, environAtInit, environReads>>

emit_send(t) ==
    /\ th[t].pc = "L126"
    /\ IF SendRaises(th[t].frame) # ""
       THEN /\ th' = Raise(t, SendRaises(th[t].frame))
            /\ sent' = sent
       ELSE /\ th' = [th EXCEPT ![t].pc = "done"]
            /\ sent' = transport_send(sent, SendArgs(th[t].frame))
    /\ UNCHANGED <<environ, handler, emitted, environAtInit, environReads,
                   resolverCalls>>

(* ---------------------------------------------------------------------- *)
(* Specification                                                           *)
(* ---------------------------------------------------------------------- *)
Next ==
    \/ __init__
    \/ \E e \in Envs : putenv(e)
    \/ \E t \in Threads, record \in Records, c \in Contexts : emit(t, record, c)
    \/ \E t \in Threads : emit_format(t)
    \/ \E t \in Threads : emit_user_labels(t)
    \/ \E t \in Threads : emit_gae_labels(t)
    \/ \E t \in Threads : emit_update(t)
    \/ \E t \in Threads : emit_source_location(t)
    \/ \E t \in Threads : emit_send(t)

Spec == Init /\ [][Next]_vars

(* ---------------------------------------------------------------------- *)
(* Properties                                                              *)
(* ---------------------------------------------------------------------- *)
\* the call of thread t has ended, by return or by an exception
Ended(t) == th[t].pc = "done"

\* transport.send was given an entry for the record of thread t's call
Delivered(t, i) == i \in DOMAIN sent /\ sent[i].record = th[t].frame.record

\* the three label sources for thread t's call
ResourceLabels == handler.resource.m
TraceLabels(t) ==
    IF th[t].ctx.trace_id # None
    THEN [k \in {_TRACE_ID_LABEL} |-> th[t].ctx.trace_id.s]
    ELSE EmptyDict
CallerLabels(t) ==
    IF th[t].frame.record.labels.t = "dict"
    THEN th[t].frame.record.labels.m
    ELSE EmptyDict

\* C1: every emit call returns normally and its record is handed to the
\* transport
C1_EmitReturnsAndDelivers ==
    \A t \in Threads :
        Ended(t) => th[t].exc = "" /\ \E i \in DOMAIN sent : Delivered(t, i)

\* C2: the labels given to transport.send are resource labels, overridden by
\* the trace-id label, overridden by the caller's record.labels
C2_LabelsMergedInOrder ==
    \A t \in Threads :
        Ended(t) /\ th[t].frame.record.labels.t \in {NoAttr.t, "dict"}
        => \E i \in DOMAIN sent :
              /\ Delivered(t, i)
              /\ sent[i].labels.m =
                    update(update(ResourceLabels, TraceLabels(t)), CallerLabels(t))

\* the value of an optional field: the record's attribute when set, else the
\* ambient one
RecordElse(t, name, ambient) ==
    IF hasattr(th[t].frame.record, name) THEN th[t].frame.record[name] ELSE ambient

\* C3: trace, span_id and http_request given to transport.send are the
\* record's same-named attributes when set, else the ambient context's values
C3_FieldsFromRecordElseContext ==
    \A t \in Threads :
        Ended(t)
        => \E i \in DOMAIN sent :
              /\ Delivered(t, i)
              /\ sent[i].trace = RecordElse(t, "trace", th[t].ctx.trace_id)
              /\ sent[i].span_id = RecordElse(t, "span_id", None)
              /\ sent[i].http_request =
                    RecordElse(t, "http_request", th[t].ctx.http_request)

\* line, function and file path of the record are all known
LocationKnown(record) ==
    Truthy(record.lineno) /\ Truthy(record.funcName) /\ Truthy(record.pathname)

\* C4: the source_location given to transport.send is the record's
\* {file, line, function} when all three are known and None otherwise
C4_SourceLocationAllOrNothing ==
    \A t \in Threads :
        Ended(t)
        => \E i \in DOMAIN sent :
              /\ Delivered(t, i)
              /\ LET record == th[t].frame.record
                 IN  sent[i].source_location =
                        IF LocationKnown(record)
                        THEN PyDict([file |-> record.pathname.s,
                                     line |-> ToString(record.lineno.n),
                                     function |-> record.funcName.s])
                        ELSE None

\* C5: a record with no attribute-bag field, emitted outside a request, gives
\* an entry with trace, span_id, http_request and source_location absent
C5_PlainRecordAllAbsent ==
    \A t \in Threads :
        Ended(t) /\ th[t].frame.record = PlainRecord /\ th[t].ctx = NoContext
        => \E i \in DOMAIN sent :
              /\ Delivered(t, i)
              /\ sent[i].trace = None
              /\ sent[i].span_id = None
              /\ sent[i].http_request = None
              /\ sent[i].source_location = None

\* C6: with none of the environment variables set, construction does not
\* fail and the resource is the generic fallback with empty labels
C6_ConstructionFailsOpen ==
    handler.init # "not called" /\ environAtInit = NoEnv
    => /\ handler.init = "returned"
       /\ handler.resource = Resource("global", EmptyDict)

\* C7: once the handler is constructed, no step (an emit statement or a
\* change of the environment) changes resource, project_id, module_id or
\* version_id, reads the environment or calls the resolver
C7_ResourceResolvedOnce ==
    [][handler.init # "not called"
       => /\ handler' = handler
          /\ environReads' = environReads
          /\ resolverCalls' = resolverCalls
          /\ resolverCalls = 1]_vars

\* an emit call has run to its end after the environment was changed, and the
\* handler still holds what was resolved at construction
C7_Witness ==
    /\ handler.init # "not called"
    /\ environ # environAtInit
    /\ handler.resource = get_gae_resource(environAtInit)
    /\ handler.resource # get_gae_resource(environ)
    /\ \E t \in Threads : Ended(t)

\* C8: a record whose labels attribute is not a mapping is still delivered,
\* with the labels it would have without that attribute
C8_MalformedLabelsIgnored ==
    \A t \in Threads :
        Ended(t) /\ th[t].frame.record.labels.t \notin {NoAttr.t, "dict"}
        => /\ th[t].exc = ""
           /\ \E i \in DOMAIN sent :
                 /\ Delivered(t, i)
                 /\ sent[i].labels.m = update(ResourceLabels, TraceLabels(t))

Quiescent == \A t \in Threads : th[t].pc \in {"idle", "done"}

\* C10: the transport holds one entry per emit call, in call order, each with
\* the record and its formatted message
C10_OneSendPerEmit ==
    Quiescent
    => /\ Len(sent) = Len(emitted)
       /\ \A i \in DOMAIN sent :
             /\ sent[i].record = emitted[i]
             /\ sent[i].message = format(emitted[i])

====
